---- MODULE Spec2Model ----
(***************************************************************************)
(* Provisioning and update engine of coc-utils: LanguageServerProvider     *)
(* (release resolution, install record, download / extract / cleanup) and  *)
(* ServerInstaller (checkVersion, ensureInstalled, ensureUpdated).         *)
(*                                                                         *)
(* An async method is split at its awaits: one action per continuation.    *)
(* Each process p keeps a stack of continuation labels; the head is the    *)
(* continuation that runs next, and a call pushes the callee's first       *)
(* label.  A finished top-level call rests at "done" with its result in    *)
(* ret / outcome until Return(p) clears the locals.                        *)
(***************************************************************************)
EXTENDS Integers, Sequences, FiniteSets, TLC

(* ------------------------------ bounds -------------------------------- *)
MaxNow == 1200         \* longest call the clock follows (ms)
MaxAge == 100          \* record ages are exact up to this, and within this
                       \* of the refresh threshold (ms)
MaxTerminals == 3      \* terminals one REPLProcess creates
MaxLock == 2           \* longest lock of the executable, in removal attempts

(* ------------------------- program constants -------------------------- *)
RetryInterval == 100
DefaultTimeout == 1000
RefreshThreshold == 604800000   \* 7 * 86400000 ms

Procs == {1, 2}
Variants == {"installer.ts", "part_002"}

(* inputs *)
Timeouts == {0, 100, 150, 250}
TickStep == 100
Waits == {TickStep, RefreshThreshold - TickStep}

(* file names are sequences of pieces, so that a regular expression can *)
(* match inside a name where a string pattern needs the whole name      *)
ServerZip == << "server", ".zip" >>
OldServerZip == << "old-", "server", ".zip" >>
NotesTxt == << "notes", ".txt" >>

(* GitHub release objects as httpsGetJson returns them *)
GithubReleases ==
  { [assets |-> << [name |-> NotesTxt, browser_download_url |-> "u0"],
                   [name |-> OldServerZip, browser_download_url |-> "u2"],
                   [name |-> ServerZip, browser_download_url |-> "u1"] >>,
     name |-> "v1", id |-> 1],
    [assets |-> << [name |-> ServerZip, browser_download_url |-> "u2"],
                   [name |-> ServerZip, browser_download_url |-> "u3"] >>,
     name |-> "v1", id |-> 2],
    [assets |-> << [name |-> ServerZip, browser_download_url |-> "u1"] >>,
     name |-> "v2", id |-> 1],
    [assets |-> << [name |-> ServerZip, browser_download_url |-> "u2"] >>,
     name |-> "v1", id |-> 1],
    [assets |-> << [name |-> NotesTxt, browser_download_url |-> "u0"] >>,
     name |-> "v3", id |-> 3] }

NoRelease == [assets |-> << >>, name |-> "", id |-> 0]

repoUrl == "https://host/dl"

VARIABLES
  cfg,            \* constructor arguments: repo kind, custom path, package
  info,           \* downloadinfo.json: the persisted IDownloadInfo
  storageExists,  \* extensionStoragePath exists
  dirExists,      \* languageServerDirectory exists
  exeExists,      \* languageServerExe exists (inside the directory)
  arcExists,      \* languageServerArchive exists (beside the directory)
  now,            \* Date.now(), counted from the start of the call in flight
  lockLeft,       \* removal attempts for which the executable is still locked
  client,         \* per process: state of the runningClient argument
  stack,          \* per process: continuation labels, head runs next
  args,           \* per process: arguments of the top-level call
  downinfo,       \* per process: downinfo of downloadLanguageServer
  startTime,      \* per process: startTime of cleanupLanguageServer
  timeout,        \* per process: timeout of cleanupLanguageServer
  lastError,      \* per process: lastError of cleanupLanguageServer
  ret,            \* per process: completion of the last returned call
  steps,          \* per process: effects of the current top-level call, in order
  pre,            \* per process: persisted state when the top-level call began
  cur,            \* per process: the record checkVersion loaded
  fetched,        \* per process: the release checkVersion resolved
  api_result,     \* per process: api_result of a direct fetchDownloadInfo call
  eires,          \* per process: result of ensureInstalled
  outcome,        \* per process: result of ensureUpdated
  overlapped,     \* some call began while another was in flight
  consoleTerminal,            \* REPLProcess: the terminal, 0 for undefined
  consoleCloseSubscription,   \* REPLProcess: the subscription, 0 for undefined
  terminals,      \* terminals of the workspace that are open
  subscriptions,  \* onDidCloseTerminal subscriptions not disposed
  created,        \* terminals created so far: the next one is created + 1
  starting,       \* per process: start() awaits createTerminal
  lastLog,        \* last line of the output channel
  fired           \* onExited events of the last closed terminal

vars == << cfg, info, storageExists, dirExists, exeExists, arcExists, now,
           lockLeft, client, stack, args, downinfo, startTime, timeout,
           lastError, ret, steps, pre, cur, fetched, api_result, eires,
           outcome, overlapped, consoleTerminal, consoleCloseSubscription,
           terminals, subscriptions, created, starting, lastLog, fired >>

installVars == << cfg, info, storageExists, dirExists, exeExists, arcExists,
                  now, lockLeft, client, stack, args, downinfo, startTime,
                  timeout, lastError, ret, steps, pre, cur, fetched,
                  api_result, eires, outcome, overlapped >>

replVars == << consoleTerminal, consoleCloseSubscription, terminals,
               subscriptions, created, starting, lastLog, fired >>

fsVars == << info, storageExists, dirExists, exeExists, arcExists >>
clVars == << startTime, timeout, lastError >>
instVars == << cur, fetched, api_result, eires, outcome >>

(* ------------------------------ values -------------------------------- *)
\* present: the file exists; parses: JSON.parse accepts its content
NoInfo == [present |-> FALSE, parses |-> TRUE, url |-> "", version |-> "",
           id |-> 0, downloadedTime |-> 0]

IDownloadInfo(u, v, i, t) ==
  [present |-> TRUE, parses |-> TRUE, url |-> u, version |-> v, id |-> i,
   downloadedTime |-> t]

\* a state file whose content is not JSON
Garbled == [present |-> TRUE, parses |-> FALSE, url |-> "", version |-> "",
            id |-> 0, downloadedTime |-> 0]

Ok(v) == [ok |-> TRUE, err |-> "", val |-> v]
Throw(e) == [ok |-> FALSE, err |-> e, val |-> ""]
FetchThrow(e) == [ok |-> FALSE, err |-> e, val |-> NoInfo]
NoRet == [ok |-> TRUE, err |-> "", val |-> ""]

NoEI == [set |-> FALSE, available |-> FALSE, installed |-> FALSE,
         error |-> "", version |-> ""]
EI(av, inst, e, v) == [set |-> TRUE, available |-> av, installed |-> inst,
                       error |-> e, version |-> v]
NoEU == [set |-> FALSE, status |-> "", updated |-> FALSE, error |-> ""]
EU(st, upd, e) == [set |-> TRUE, status |-> st, updated |-> upd, error |-> e]

NotSet == "doInstall is not set"
Cancelled == "Cancelled by user"
NotFound == "Custom server path is specified, but the server is not found"

NoArgs == [op |-> "none", ask |-> FALSE, doInstall |-> FALSE,
           showMessage |-> FALSE, runningClient |-> FALSE, variant |-> "none",
           force |-> FALSE]

Snapshot == [info |-> info, dirExists |-> dirExists, exeExists |-> exeExists,
             arcExists |-> arcExists, now |-> now]

\* The code uses Date.now() only in differences (cleanupLanguageServer's
\* elapsed time, shouldRegularUpdate's age), so the origin of the clock is
\* moved to the present between calls: a stored timestamp that lies d ms
\* further in the past is d smaller.  The only test on an age is
\* shouldRegularUpdate's comparison with the threshold: ages from the
\* threshold on are kept as the threshold, and ages far from both ends as
\* MaxAge.
ClipAge(a) ==
  IF a >= RefreshThreshold THEN RefreshThreshold
  ELSE IF a > MaxAge /\ a < RefreshThreshold - MaxAge THEN MaxAge
  ELSE a

Aged(i, d) ==
  IF i.present /\ i.parses
  THEN [i EXCEPT !.downloadedTime = 0 - ClipAge(d - @)]
  ELSE i

NoPre == [info |-> NoInfo, dirExists |-> FALSE, exeExists |-> FALSE,
          arcExists |-> FALSE, now |-> 0]

Idle(p) == stack[p] = << >>
Quiescent == \A p \in Procs : Idle(p)
At(p, l) == stack[p] # << >> /\ Head(stack[p]) = l
Log(p, e) == steps' = [steps EXCEPT ![p] = Append(@, e)]
Log2(p, e, f) == steps' = [steps EXCEPT ![p] = Append(Append(@, e), f)]
Logs(p, es) == steps' = [steps EXCEPT ![p] = @ \o es]
Has(s, e) == \E i \in 1..Len(s) : s[i] = e
Count(s, e) == Cardinality({i \in 1..Len(s) : s[i] = e})

(* -------------------- LanguageServerProvider: pure part --------------- *)
platformFilename == cfg.platformFilename

\* RegExp.prototype.exec as a test: the expression occurs somewhere in the name
RegExpExec(re, name) ==
  \E i \in 0..(Len(name) - Len(re)) : SubSeq(name, i + 1, i + Len(re)) = re

\* the filter callback of fetchDownloadInfo
AssetMatches_ExactOnly(x) == x.name = platformFilename.text

AssetMatches(x) ==
  IF platformFilename.kind = "string"
  THEN x.name = platformFilename.text
  ELSE RegExpExec(platformFilename.text, x.name)

\* fetchDownloadInfo, github branch: filter the assets, take the first match
MatchedAssets(rel) ==
  SelectSeq(rel.assets, AssetMatches)

fetchDownloadInfo(rel, t) ==
  IF cfg.repoKind = "github"
  THEN IF Len(MatchedAssets(rel)) = 0
       THEN FetchThrow("TypeError")
       ELSE [ok |-> TRUE, err |-> "",
             val |-> IDownloadInfo(MatchedAssets(rel)[1].browser_download_url,
                                   rel.name, rel.id, t)]
  ELSE [ok |-> TRUE, err |-> "",
        val |-> IDownloadInfo(repoUrl, "", 0, t)]

\* what the awaited fetchDownloadInfo() may complete with
FetchResults(t) ==
  IF cfg.repoKind = "github"
  THEN {fetchDownloadInfo(rel, t) : rel \in GithubReleases}
         \cup (IF cfg.faults THEN {FetchThrow("ResolutionError")} ELSE {})
  ELSE {[ok |-> TRUE, err |-> "",
          val |-> IDownloadInfo(repoUrl, "", 0, t)]}

loadLocalDownloadInfo == info

\* JSON.parse throws on a state file that exists and does not parse
LoadThrows_Never == FALSE

LoadThrows == info.present /\ ~info.parses

\* the is-current test of downloadLanguageServer
IsCurrent(localinfo, down) ==
  localinfo.present /\ localinfo.id = down.id /\ localinfo.version = down.version

getLanguageServerIfDownloaded == exeExists

\* shouldRegularUpdate, for a state file that is absent or parses.
\* new Date(ms).getTime() is ms for every ms up to 8.64e15 in size, which
\* covers every difference of two clock readings.
shouldRegularUpdate_Strict ==
  \/ ~loadLocalDownloadInfo.present
  \/ now - loadLocalDownloadInfo.downloadedTime > RefreshThreshold

shouldRegularUpdate ==
  \/ ~loadLocalDownloadInfo.present
  \/ now - loadLocalDownloadInfo.downloadedTime >= RefreshThreshold

\* the record the is-current path saves: localinfo with a fresh timestamp
RefreshedInfo_SavesDowninfo(localinfo, down, t) ==
  [down EXCEPT !.downloadedTime = t]

RefreshedInfo_KeepsTime(localinfo, down, t) == localinfo

RefreshedInfo(localinfo, down, t) ==
  [localinfo EXCEPT !.downloadedTime = t]

\* the record on disk once the extraction settled: downinfo with a fresh
\* timestamp after a successful extraction, otherwise what was there
CommittedInfo_AlwaysSaves(extracted, old, down, t) ==
  [down EXCEPT !.downloadedTime = t]

CommittedInfo(extracted, old, down, t) ==
  IF extracted THEN [down EXCEPT !.downloadedTime = t] ELSE old

\* the state file after rimraf.sync(localDownloadInfoPath)
RemovedInfo_Kept(i) == i

RemovedInfo(i) == NoInfo

\* a rejected cleanupLanguageServer() ends downloadLanguageServer
CleanupFailed_Ignored(r) == FALSE

CleanupFailed(r) == ~r.ok

(* ------------------ LanguageServerProvider: operations ---------------- *)
Locks ==
  IF cfg.faults THEN (0..MaxLock) \cup {DefaultTimeout \div RetryInterval}
  ELSE {0}

Goto(p, l) == stack' = [stack EXCEPT ![p] = << l >> \o Tail(@)]
Pop(p) == stack' = [stack EXCEPT ![p] = Tail(@)]
Call(p, callee, cont) ==
  stack' = [stack EXCEPT ![p] = << callee, cont >> \o Tail(@)]

\* entry of cleanupLanguageServer(t): startTime and lastError are set
EnterCleanup(p, t) ==
  /\ startTime' = [startTime EXCEPT ![p] = now]
  /\ timeout' = [timeout EXCEPT ![p] = t]
  /\ lastError' = [lastError EXCEPT ![p] = "undefined"]
  /\ \E n \in Locks : lockLeft' = n

\* downloadLanguageServer up to its first await: storage directory made,
\* fetchDownloadInfo pending
EnterDownload ==
  storageExists' = TRUE

\* downloadLanguageServer: fetchDownloadInfo completed; load and compare,
\* then either refresh the timestamp or start the cleanup
DlFetched(p) ==
  /\ At(p, "dl_fetch")
  /\ \E r \in FetchResults(now) :
       IF ~r.ok
       THEN /\ ret' = [ret EXCEPT ![p] = Throw(r.err)]
            /\ Pop(p)
            /\ Log(p, "fetchFail")
            /\ UNCHANGED << info, downinfo, lockLeft, clVars >>
       ELSE /\ downinfo' = [downinfo EXCEPT ![p] = r.val]
            /\ IF LoadThrows
               THEN /\ ret' = [ret EXCEPT ![p] = Throw("SyntaxError")]
                    /\ Pop(p)
                    /\ Log2(p, "fetch", "loadFail")
                    /\ UNCHANGED << info, lockLeft, clVars >>
               ELSE IF IsCurrent(loadLocalDownloadInfo, r.val)
               THEN /\ info' = RefreshedInfo(loadLocalDownloadInfo, r.val, now)
                    /\ ret' = [ret EXCEPT ![p] = Ok("")]
                    /\ Pop(p)
                    /\ steps' = [steps EXCEPT
                         ![p] = @ \o << "fetch", "load", "save" >>]
                    /\ UNCHANGED << lockLeft, clVars >>
               ELSE /\ EnterCleanup(p, DefaultTimeout)
                    /\ Call(p, "cl_loop", "dl_cleaned")
                    /\ Log2(p, "fetch", "load")
                    /\ UNCHANGED << info, ret >>
  /\ UNCHANGED overlapped
  /\ UNCHANGED replVars
  /\ UNCHANGED << cfg, storageExists, dirExists, exeExists, arcExists, now,
                  client, args, pre, instVars >>

\* cleanupLanguageServer: one pass of the while loop
ClLoop(p) ==
  /\ At(p, "cl_loop")
  /\ IF ~(now - startTime[p] < timeout[p])
     THEN /\ ret' = [ret EXCEPT ![p] = Throw(lastError[p])]
          /\ Pop(p)
          /\ lockLeft' = 0
          /\ UNCHANGED << fsVars, lastError, steps >>
     ELSE IF ~dirExists
     THEN /\ ret' = [ret EXCEPT ![p] = Ok("false")]
          /\ Pop(p)
          /\ lockLeft' = 0
          /\ UNCHANGED << fsVars, lastError, steps >>
     ELSE IF lockLeft > 0
     THEN \* rimraf.sync(languageServerDirectory) throws: executable locked
          /\ lockLeft' = lockLeft - 1
          /\ lastError' = [lastError EXCEPT ![p] = "EPERM"]
          /\ Goto(p, "cl_sleep")
          /\ Log(p, "rimrafDirFail")
          /\ UNCHANGED << fsVars, ret >>
     ELSE /\ dirExists' = FALSE
          /\ exeExists' = FALSE
          /\ \/ \* rimraf.sync(localDownloadInfoPath) succeeds
                /\ info' = RemovedInfo(info)
                /\ ret' = [ret EXCEPT ![p] = Ok("true")]
                /\ Pop(p)
                /\ Log2(p, "rimrafDir", "rimrafInfo")
                /\ UNCHANGED lastError
             \/ \* rimraf.sync(localDownloadInfoPath) throws
                /\ cfg.faults
                /\ info.present
                /\ lastError' = [lastError EXCEPT ![p] = "EBUSY"]
                /\ Goto(p, "cl_sleep")
                /\ Log2(p, "rimrafDir", "rimrafInfoFail")
                /\ UNCHANGED << info, ret >>
          /\ UNCHANGED << storageExists, arcExists, lockLeft >>
  /\ UNCHANGED overlapped
  /\ UNCHANGED replVars
  /\ UNCHANGED << cfg, now, client, args, downinfo, startTime, timeout, pre,
                  instVars >>

\* cleanupLanguageServer: the 100 ms timer fired (on time)
ClSleep(p) ==
  /\ At(p, "cl_sleep")
  /\ now + RetryInterval <= MaxNow
  /\ now' = now + RetryInterval
  /\ Goto(p, "cl_loop")
  /\ UNCHANGED overlapped
  /\ UNCHANGED replVars
  /\ UNCHANGED << cfg, fsVars, lockLeft, client, args, downinfo, clVars, ret,
                  steps, pre, instVars >>

\* downloadLanguageServer: cleanup returned; make the directory, start httpsGet
DlCleaned(p) ==
  /\ At(p, "dl_cleaned")
  /\ IF CleanupFailed(ret[p])
     THEN /\ Pop(p)
          /\ UNCHANGED << dirExists, steps >>
     ELSE /\ dirExists' = TRUE
          /\ Goto(p, "dl_download")
          /\ Log(p, "mkdir")
  /\ UNCHANGED overlapped
  /\ UNCHANGED replVars
  /\ UNCHANGED << cfg, info, storageExists, exeExists, arcExists, now,
                  lockLeft, client, args, downinfo, clVars, ret, pre,
                  instVars >>

\* downloadLanguageServer: httpsGet settled, or will never settle.  The
\* request's error event and a status other than 200 reject; once the callback
\* runs nothing listens for an error of the response or of the file stream
\* and only finish resolves.
DlDownloaded(p) ==
  /\ At(p, "dl_download")
  /\ \/ /\ arcExists' = TRUE
        /\ Goto(p, "dl_extract")
        /\ Log(p, "download")
        /\ UNCHANGED ret
     \/ /\ cfg.faults
        /\ ret' = [ret EXCEPT ![p] = Throw("DownloadError")]
        /\ Pop(p)
        /\ Log(p, "downloadFail")
        /\ UNCHANGED arcExists
     \/ \* the response breaks off after the archive file was opened
        /\ cfg.faults
        /\ arcExists' = TRUE
        /\ Goto(p, "hung")
        /\ Log(p, "downloadHang")
        /\ UNCHANGED ret
  /\ UNCHANGED overlapped
  /\ UNCHANGED replVars
  /\ UNCHANGED << cfg, info, storageExists, dirExists, exeExists, now,
                  lockLeft, client, args, downinfo, clVars, pre, instVars >>

\* whether the extractor's promise rejects on a failure of the given step
\* ("read", "decode", "write"): unzip rejects on all; the gzip branch listens
\* on all three streams; the tar-gzip branch has no listener on tar.extract
Rejects(archiver, step) ==
  IF archiver = "tar-gzip" THEN step # "write" ELSE TRUE

ExtractSteps == {"read", "decode", "write"}

\* the archive file once the extraction settled
ArchiveAfter_Unlinked(extracted, arc) == FALSE

ArchiveAfter(extracted, arc) == IF extracted THEN FALSE ELSE arc

\* a failed extraction step: the promise rejects or stays pending
ExtractFails(p, step, err) ==
  IF Rejects(cfg.archiver, step)
  THEN /\ ret' = [ret EXCEPT ![p] = Throw(err)]
       /\ Goto(p, "dl_settle")
       /\ Log(p, "extractFail")
  ELSE /\ Goto(p, "hung")
       /\ Log(p, "extractHang")
       /\ UNCHANGED ret

\* downloadLanguageServer: the extractor runs while the call awaits it
DlExtracting(p) ==
  /\ At(p, "dl_extract")
  /\ IF ~arcExists
     THEN \* the archive is gone: the read fails; the gzip branch has already
          \* opened its output file
          /\ ExtractFails(p, "read", "ENOENT")
          /\ exeExists' = (exeExists \/ (cfg.archiver = "gzip" /\ dirExists))
          /\ UNCHANGED dirExists
     ELSE IF ~dirExists /\ cfg.archiver # "zip"
     THEN \* the directory is gone: unzip makes it again, the others cannot
          \* write
          /\ ExtractFails(p, "write", "ENOENT")
          /\ UNCHANGED << dirExists, exeExists >>
     ELSE \/ /\ exeExists' = TRUE
             /\ dirExists' = TRUE
             /\ ret' = [ret EXCEPT ![p] = Ok("")]
             /\ Goto(p, "dl_settle")
             /\ Log(p, "extract")
          \/ \* a step fails, possibly after some files were written
             /\ cfg.faults
             /\ \E step \in ExtractSteps :
                  ExtractFails(p, step, "ExtractionError")
             /\ \E written \in BOOLEAN : exeExists' = (exeExists \/ written)
             /\ dirExists' = TRUE
  /\ UNCHANGED overlapped
  /\ UNCHANGED replVars
  /\ UNCHANGED << cfg, info, storageExists, arcExists, now, lockLeft, client,
                  args, downinfo, clVars, pre, instVars >>

\* downloadLanguageServer: the extraction settled; on success unlink the
\* archive and save downinfo with a fresh timestamp
DlExtracted(p) ==
  /\ At(p, "dl_settle")
  /\ IF ~ret[p].ok
     THEN /\ info' = CommittedInfo(FALSE, info, downinfo[p], now)
          /\ arcExists' = ArchiveAfter(FALSE, arcExists)
          /\ UNCHANGED << ret, steps >>
     ELSE IF ~arcExists
     THEN \* unlinkSync throws: the archive is gone
          /\ ret' = [ret EXCEPT ![p] = Throw("ENOENT")]
          /\ Log(p, "unlinkFail")
          /\ UNCHANGED << info, arcExists >>
     ELSE /\ arcExists' = ArchiveAfter(TRUE, arcExists)
          /\ info' = CommittedInfo(TRUE, info, downinfo[p], now)
          /\ Log2(p, "unlink", "save")
          /\ UNCHANGED ret
  /\ Pop(p)
  /\ UNCHANGED overlapped
  /\ UNCHANGED replVars
  /\ UNCHANGED << cfg, storageExists, dirExists, exeExists, now, lockLeft,
                  client, args, downinfo, clVars, pre, instVars >>

(* --------------------------- ServerInstaller -------------------------- *)
SetStack(p, s) == stack' = [stack EXCEPT ![p] = s]

\* get isCustomPath, and every test of this.customPath
isCustomPath_IfExists == cfg.customPath = "exists"

isCustomPath_Never == FALSE

isCustomPath == cfg.customPath # "none"

\* the doInstall gate of ensureInstalled and ensureUpdated
Blocked_Never(doInstall) == FALSE

Blocked(doInstall) == ~doInstall

\* what the catch around install() in ensureInstalled returns
InstallFailed_Unset(err) == NoEI

InstallFailed(err) == EI(FALSE, FALSE, err, "")

\* whether the answer to a confirmation prompt lets the call go on
Proceeds_Always(yes) == TRUE

Proceeds(yes) == yes

\* get path / checkInstalled
path ==
  IF isCustomPath THEN cfg.customPath = "exists"
  ELSE getLanguageServerIfDownloaded

checkInstalled == path

\* the classification checkVersion returns once fetchDownloadInfo resolved
VersionResult(currentVersion, latest) ==
  IF currentVersion # latest.version THEN "different" ELSE "same"

\* checkVersion up to its first await; rest is the caller's continuation
EnterCheckVersion(p, rest) ==
  IF isCustomPath
  THEN /\ ret' = [ret EXCEPT ![p] = Ok("customPath")]
       /\ SetStack(p, rest)
       /\ UNCHANGED << cur, steps >>
  ELSE IF LoadThrows
  THEN /\ ret' = [ret EXCEPT ![p] = Throw("SyntaxError")]
       /\ SetStack(p, rest)
       /\ Log(p, "loadFail")
       /\ UNCHANGED cur
  ELSE /\ cur' = [cur EXCEPT ![p] = loadLocalDownloadInfo]
       /\ Log(p, "load")
       /\ IF ~loadLocalDownloadInfo.present
          THEN /\ ret' = [ret EXCEPT ![p] = Ok("notInstalled")]
               /\ SetStack(p, rest)
          ELSE /\ SetStack(p, << "cv_fetch" >> \o rest)
               /\ UNCHANGED ret

\* checkVersion: fetchDownloadInfo settled
CvFetched(p) ==
  /\ At(p, "cv_fetch")
  /\ \E r \in FetchResults(now) :
       /\ fetched' = [fetched EXCEPT ![p] = r.val]
       /\ IF ~r.ok
          THEN /\ ret' = [ret EXCEPT ![p] = Throw(r.err)]
               /\ Log(p, "fetchFail")
          ELSE /\ ret' = [ret EXCEPT
                    ![p] = Ok(VersionResult(cur[p].version, r.val))]
               /\ Log(p, "fetch")
  /\ Pop(p)
  /\ UNCHANGED overlapped
  /\ UNCHANGED replVars
  /\ UNCHANGED << cfg, fsVars, now, lockLeft, client, args, downinfo, clVars,
                  pre, cur, api_result, eires, outcome >>

\* ensureInstalled(a.ask, a.doInstall) up to its first await; rest is the
\* caller's continuation, before the effects the caller logged in the same
\* step
EnterEnsureInstalled(p, a, rest, before) ==
  IF checkInstalled
  THEN /\ eires' = [eires EXCEPT ![p] = EI(TRUE, FALSE, "", "")]
       /\ SetStack(p, rest)
       /\ Logs(p, before)
       /\ UNCHANGED storageExists
  ELSE IF isCustomPath
  THEN /\ eires' = [eires EXCEPT ![p] = EI(FALSE, FALSE, NotFound, "")]
       /\ SetStack(p, rest)
       /\ Logs(p, before)
       /\ UNCHANGED storageExists
  ELSE IF Blocked(a.doInstall)
  THEN /\ eires' = [eires EXCEPT ![p] = EI(FALSE, FALSE, NotSet, "")]
       /\ SetStack(p, rest)
       /\ Logs(p, before)
       /\ UNCHANGED storageExists
  ELSE IF a.ask
  THEN /\ SetStack(p, << "ei_prompt" >> \o rest)
       /\ Logs(p, before \o << "prompt" >>)
       /\ UNCHANGED << eires, storageExists >>
  ELSE IF a.variant = "part_002"
  THEN \* if (!ask || !(await window.showPrompt(message)))
       /\ eires' = [eires EXCEPT ![p] = EI(FALSE, FALSE, Cancelled, "")]
       /\ SetStack(p, rest)
       /\ Logs(p, before)
       /\ UNCHANGED storageExists
  ELSE /\ EnterDownload
       /\ SetStack(p, << "dl_fetch", "ei_installed" >> \o rest)
       /\ Logs(p, before)
       /\ UNCHANGED eires

\* ensureInstalled: the prompt was answered
EiPrompt(p) ==
  /\ At(p, "ei_prompt")
  /\ \E yes \in BOOLEAN :
       /\ Log(p, IF yes THEN "confirmed" ELSE "declined")
       /\ IF Proceeds(yes)
          THEN /\ EnterDownload
               /\ SetStack(p, << "dl_fetch", "ei_installed" >>
                                \o Tail(stack[p]))
               /\ UNCHANGED eires
          ELSE /\ eires' = [eires EXCEPT
                    ![p] = EI(FALSE, FALSE, Cancelled, "")]
               /\ Pop(p)
               /\ UNCHANGED storageExists
  /\ UNCHANGED overlapped
  /\ UNCHANGED replVars
  /\ UNCHANGED << cfg, info, dirExists, exeExists, arcExists, now, lockLeft,
                  client, args, downinfo, clVars, ret, pre, cur, fetched, api_result,
                  outcome >>

\* ensureInstalled: install() settled
EiInstalled(p) ==
  /\ At(p, "ei_installed")
  /\ IF ret[p].ok
     THEN /\ eires' = [eires EXCEPT
               ![p] = EI(TRUE, TRUE, "", loadLocalDownloadInfo.version)]
          /\ Log(p, "load")
     ELSE /\ eires' = [eires EXCEPT ![p] = InstallFailed(ret[p].err)]
          /\ Log(p, "notifyError")
  /\ Pop(p)
  /\ UNCHANGED overlapped
  /\ UNCHANGED replVars
  /\ UNCHANGED << cfg, fsVars, now, lockLeft, client, args, downinfo, clVars,
                  ret, pre, cur, fetched, api_result, outcome >>

\* the notice of the same branch of ensureUpdated
UpToDateNotice_Always(showMessage) == << "notifyInfo" >>

UpToDateNotice(showMessage) ==
  IF showMessage THEN << "notifyInfo" >> ELSE << >>

NeedsStop(p) == args[p].runningClient /\ client[p] = "running"

\* ensureUpdated past the ask / doInstall gate: stop the client, install()
EuProceed(p, rest, before) ==
  /\ client' = [client EXCEPT ![p] = IF NeedsStop(p) THEN "stopped" ELSE @]
  /\ Logs(p, before \o (IF NeedsStop(p) THEN << "stop" >> ELSE << >>))
  /\ EnterDownload
  /\ SetStack(p, << "dl_fetch", "eu_upgraded" >> \o rest)

Finish(p, o) ==
  /\ outcome' = [outcome EXCEPT ![p] = o]
  /\ Pop(p)

StartLog(p) == IF args[p].runningClient THEN << "start" >> ELSE << >>
Started(p) ==
  [client EXCEPT ![p] = IF args[p].runningClient THEN "running" ELSE @]

\* ensureUpdated: checkVersion settled
EuChecked(p) ==
  /\ At(p, "eu_checked")
  /\ LET r == ret[p]
         rest == Tail(stack[p])
     IN IF ~r.ok
        THEN /\ Finish(p, EU("outdated", FALSE, r.err))
             /\ Log(p, "notifyError")
             /\ UNCHANGED << client, eires, storageExists >>
        ELSE IF r.val = "customPath"
        THEN /\ Finish(p, EU("customPath", FALSE, ""))
             /\ UNCHANGED << client, eires, storageExists, steps >>
        ELSE IF r.val = "same"
        THEN /\ Finish(p, EU("upToDate", FALSE, ""))
             /\ Logs(p, UpToDateNotice(args[p].showMessage))
             /\ UNCHANGED << client, eires, storageExists >>
        ELSE IF r.val = "notInstalled"
        THEN /\ client' = [client EXCEPT
                  ![p] = IF NeedsStop(p) THEN "stopped" ELSE @]
             /\ EnterEnsureInstalled(p, args[p], << "eu_installed" >> \o rest,
                  IF NeedsStop(p) THEN << "stop" >> ELSE << >>)
             /\ UNCHANGED outcome
        ELSE IF Blocked(args[p].doInstall)
        THEN /\ Finish(p, EU("outdated", FALSE, NotSet))
             /\ UNCHANGED << client, eires, storageExists, steps >>
        ELSE IF args[p].ask
        THEN /\ Goto(p, "eu_prompt")
             /\ Log(p, "prompt")
             /\ UNCHANGED << client, eires, storageExists, outcome >>
        ELSE IF args[p].variant = "part_002"
        THEN \* if (!ask || !(await window.showPrompt(message)))
             /\ Finish(p, EU("outdated", FALSE, Cancelled))
             /\ UNCHANGED << client, eires, storageExists, steps >>
        ELSE /\ EuProceed(p, rest, << >>)
             /\ UNCHANGED << eires, outcome >>
  /\ UNCHANGED overlapped
  /\ UNCHANGED replVars
  /\ UNCHANGED << cfg, info, dirExists, exeExists, arcExists, now, lockLeft,
                  args, downinfo, clVars, ret, pre, cur, fetched, api_result >>

\* ensureUpdated, notInstalled branch: ensureInstalled returned
EuInstalled(p) ==
  /\ At(p, "eu_installed")
  /\ IF args[p].variant = "part_002"
     THEN \* await runningClient?.start() comes first
          /\ client' = Started(p)
          /\ IF ~eires[p].available
             THEN /\ Finish(p, EU("outdated", FALSE, eires[p].error))
                  /\ Logs(p, StartLog(p))
             ELSE IF ~eires[p].installed
             THEN /\ Finish(p, EU("outdated", FALSE, "AssertionError"))
                  /\ Logs(p, StartLog(p) \o << "notifyError" >>)
             ELSE /\ Finish(p, EU("outdated", TRUE, ""))
                  /\ Logs(p, StartLog(p))
     ELSE \* start() is evaluated inside the returned object, after the assert
          IF eires[p].available /\ ~eires[p].installed
          THEN /\ Finish(p, EU("outdated", FALSE, "AssertionError"))
               /\ Log(p, "notifyError")
               /\ UNCHANGED client
          ELSE /\ client' = Started(p)
               /\ Logs(p, StartLog(p))
               /\ Finish(p, EU("outdated", eires[p].available, eires[p].error))
  /\ UNCHANGED overlapped
  /\ UNCHANGED replVars
  /\ UNCHANGED << cfg, fsVars, now, lockLeft, args, downinfo, clVars, ret,
                  pre, cur, fetched, api_result, eires >>

\* ensureUpdated: the update prompt was answered
EuPrompt(p) ==
  /\ At(p, "eu_prompt")
  /\ \E yes \in BOOLEAN :
       IF Proceeds(yes)
       THEN /\ EuProceed(p, Tail(stack[p]),
                         << IF yes THEN "confirmed" ELSE "declined" >>)
            /\ UNCHANGED outcome
       ELSE /\ Finish(p, EU("outdated", FALSE, Cancelled))
            /\ Log(p, "declined")
            /\ UNCHANGED << client, storageExists >>
  /\ UNCHANGED overlapped
  /\ UNCHANGED replVars
  /\ UNCHANGED << cfg, info, dirExists, exeExists, arcExists, now, lockLeft,
                  args, downinfo, clVars, ret, pre, cur, fetched, api_result, eires >>

\* ensureUpdated: install() settled; the client is started on both paths
EuUpgraded(p) ==
  /\ At(p, "eu_upgraded")
  /\ client' = Started(p)
  /\ IF ret[p].ok
     THEN /\ Finish(p, EU("outdated", TRUE, ""))
          /\ Logs(p, StartLog(p))
     ELSE /\ Finish(p, EU("outdated", FALSE, ret[p].err))
          /\ Logs(p, << "notifyError" >> \o StartLog(p))
  /\ UNCHANGED overlapped
  /\ UNCHANGED replVars
  /\ UNCHANGED << cfg, fsVars, now, lockLeft, args, downinfo, clVars, ret,
                  pre, cur, fetched, api_result, eires >>

(* --------------------------- top-level calls -------------------------- *)
Begin(p, a) ==
  /\ Idle(p)
  /\ overlapped' = (overlapped \/ ~Quiescent)
  /\ args' = [args EXCEPT ![p] = a]
  /\ pre' = [pre EXCEPT ![p] = Snapshot]

CallDownload(p) ==
  /\ Begin(p, [NoArgs EXCEPT !.op = "downloadLanguageServer"])
  /\ EnterDownload
  /\ SetStack(p, << "dl_fetch", "done" >>)
  /\ UNCHANGED replVars
  /\ UNCHANGED << cfg, info, dirExists, exeExists, arcExists, now, lockLeft,
                  client, downinfo, clVars, ret, steps, instVars >>

CallCleanup(p) ==
  /\ Begin(p, [NoArgs EXCEPT !.op = "cleanupLanguageServer"])
  /\ \E t \in Timeouts \cup {DefaultTimeout} : EnterCleanup(p, t)
  /\ SetStack(p, << "cl_loop", "done" >>)
  /\ UNCHANGED replVars
  /\ UNCHANGED << cfg, fsVars, now, client, downinfo, ret, steps, instVars >>

\* getLanguageServer up to its first await
CallGetLanguageServer(p) ==
  /\ Begin(p, [NoArgs EXCEPT !.op = "getLanguageServer"])
  /\ IF ~exeExists
     THEN /\ EnterDownload
          /\ SetStack(p, << "dl_fetch", "gl_downloaded", "done" >>)
          /\ UNCHANGED << ret, steps >>
     ELSE IF LoadThrows
     THEN /\ ret' = [ret EXCEPT ![p] = Throw("SyntaxError")]
          /\ SetStack(p, << "done" >>)
          /\ Log(p, "loadFail")
          /\ UNCHANGED storageExists
     ELSE IF shouldRegularUpdate
     THEN /\ EnterDownload
          /\ SetStack(p, << "dl_fetch", "gl_downloaded", "done" >>)
          /\ Log(p, "load")
          /\ UNCHANGED ret
     ELSE /\ ret' = [ret EXCEPT ![p] = Ok("languageServerExe")]
          /\ SetStack(p, << "done" >>)
          /\ Log2(p, "load", "chmod")
          /\ UNCHANGED storageExists
  /\ UNCHANGED replVars
  /\ UNCHANGED << cfg, info, dirExists, exeExists, arcExists, now, lockLeft,
                  client, downinfo, clVars, instVars >>

\* getLanguageServer: downloadLanguageServer settled; chmodSync runs on every
\* platform but Windows and throws when the executable is not there
GlDownloaded(p) ==
  /\ At(p, "gl_downloaded")
  /\ IF ~ret[p].ok
     THEN UNCHANGED << ret, steps >>
     ELSE \E windows \in BOOLEAN :
            IF windows
            THEN /\ ret' = [ret EXCEPT ![p] = Ok("languageServerExe")]
                 /\ UNCHANGED steps
            ELSE IF exeExists
            THEN /\ ret' = [ret EXCEPT ![p] = Ok("languageServerExe")]
                 /\ Log(p, "chmod")
            ELSE /\ ret' = [ret EXCEPT ![p] = Throw("ENOENT")]
                 /\ Log(p, "chmodFail")
  /\ Pop(p)
  /\ UNCHANGED overlapped
  /\ UNCHANGED replVars
  /\ UNCHANGED << cfg, fsVars, now, lockLeft, client, args, downinfo, clVars,
                  pre, instVars >>

\* fetchDownloadInfo called directly; the url-prefix branch has no await
CallFetchDownloadInfo(p) ==
  /\ Begin(p, [NoArgs EXCEPT !.op = "fetchDownloadInfo"])
  /\ IF cfg.repoKind = "github"
     THEN /\ SetStack(p, << "fd_json", "done" >>)
          /\ UNCHANGED << fetched, ret >>
     ELSE /\ SetStack(p, << "done" >>)
          /\ fetched' = [fetched EXCEPT
               ![p] = fetchDownloadInfo(NoRelease, now).val]
          /\ ret' = [ret EXCEPT ![p] = Ok("")]
  /\ UNCHANGED replVars
  /\ UNCHANGED << cfg, fsVars, now, lockLeft, client, downinfo, clVars, steps,
                  cur, api_result, eires, outcome >>

\* fetchDownloadInfo: httpsGetJson settled
FdJson(p) ==
  /\ At(p, "fd_json")
  /\ \/ \E rel \in GithubReleases :
          /\ api_result' = [api_result EXCEPT ![p] = rel]
          /\ fetched' = [fetched EXCEPT ![p] = fetchDownloadInfo(rel, now).val]
          /\ ret' = [ret EXCEPT
               ![p] = IF fetchDownloadInfo(rel, now).ok THEN Ok("")
                      ELSE Throw(fetchDownloadInfo(rel, now).err)]
     \/ /\ cfg.faults
        /\ ret' = [ret EXCEPT ![p] = Throw("ResolutionError")]
        /\ UNCHANGED << api_result, fetched >>
  /\ Pop(p)
  /\ UNCHANGED overlapped
  /\ UNCHANGED replVars
  /\ UNCHANGED << cfg, fsVars, now, lockLeft, client, args, downinfo, clVars,
                  steps, pre, cur, eires, outcome >>

CallCheckVersion(p) ==
  /\ Begin(p, [NoArgs EXCEPT !.op = "checkVersion"])
  /\ EnterCheckVersion(p, << "done" >>)
  /\ UNCHANGED replVars
  /\ UNCHANGED << cfg, fsVars, now, lockLeft, client, downinfo, clVars,
                  fetched, api_result, eires, outcome >>

CallEnsureInstalled(p) ==
  /\ \E ask, doInstall \in BOOLEAN, v \in Variants :
       LET a == [NoArgs EXCEPT !.op = "ensureInstalled", !.ask = ask,
                               !.doInstall = doInstall, !.variant = v]
       IN /\ Begin(p, a)
          /\ EnterEnsureInstalled(p, a, << "done" >>, << >>)
  /\ UNCHANGED replVars
  /\ UNCHANGED << cfg, info, dirExists, exeExists, arcExists, now, lockLeft,
                  client, downinfo, clVars, ret, cur, fetched, api_result, outcome >>

CallEnsureUpdated(p) ==
  /\ \E ask, doInstall, showMessage \in BOOLEAN, v \in Variants,
        c \in {"undefined", "running", "stopped"} :
       /\ Begin(p, [op |-> "ensureUpdated", ask |-> ask,
                    doInstall |-> doInstall, showMessage |-> showMessage,
                    runningClient |-> (c # "undefined"), variant |-> v,
                    force |-> FALSE])
       /\ client' = [client EXCEPT ![p] = c]
  /\ EnterCheckVersion(p, << "eu_checked", "done" >>)
  /\ UNCHANGED replVars
  /\ UNCHANGED << cfg, fsVars, now, lockLeft, downinfo, clVars,
                  fetched, api_result, eires, outcome >>

\* install(force): with force the cleanup is called and its promise dropped;
\* the call runs its first pass at once.  Only the older revision has force.
CallInstall(p) ==
  /\ \E v \in Variants, force \in BOOLEAN :
       /\ force => v = "installer.ts"
       /\ Begin(p, [NoArgs EXCEPT !.op = "install", !.variant = v,
                                  !.force = force])
       /\ IF force
          THEN /\ EnterCleanup(p, DefaultTimeout)
               /\ SetStack(p, << "cl_loop", "in_forced", "done" >>)
               /\ UNCHANGED storageExists
          ELSE /\ EnterDownload
               /\ SetStack(p, << "dl_fetch", "done" >>)
               /\ UNCHANGED << lockLeft, clVars >>
  /\ UNCHANGED replVars
  /\ UNCHANGED << cfg, info, dirExists, exeExists, arcExists, now, client,
                  downinfo, ret, steps, instVars >>

\* the cleanup called by install(true) has reached its timer: nothing awaits it
Detaching(p) ==
  /\ Len(stack[p]) >= 2
  /\ stack[p][1] = "cl_sleep"
  /\ stack[p][2] = "in_forced"

NotAwaited == "cleanupLanguageServer, not awaited"

\* install(true): cleanupLanguageServer() has returned its promise, settled
\* or pending, and downloadLanguageServer begins; a pending cleanup goes on
\* as process q, with its own startTime and lastError
InForced(p, q) ==
  /\ At(p, "in_forced") \/ Detaching(p)
  /\ EnterDownload
  /\ IF Detaching(p)
     THEN /\ Idle(q)
          /\ stack' = [stack EXCEPT ![p] = << "dl_fetch", "done" >>,
                                    ![q] = << "cl_sleep", "done" >>]
          /\ args' = [args EXCEPT ![q] = [NoArgs EXCEPT !.op = NotAwaited]]
          /\ startTime' = [startTime EXCEPT ![q] = startTime[p]]
          /\ timeout' = [timeout EXCEPT ![q] = timeout[p]]
          /\ lastError' = [lastError EXCEPT ![q] = lastError[p]]
     ELSE /\ SetStack(p, << "dl_fetch", "done" >>)
          /\ UNCHANGED << args, clVars >>
  /\ ret' = [ret EXCEPT ![p] = NoRet]
  /\ UNCHANGED overlapped
  /\ UNCHANGED replVars
  /\ UNCHANGED << cfg, info, dirExists, exeExists, arcExists, now, lockLeft,
                  client, downinfo, steps, pre, instVars >>

\* the caller consumed the result; the locals of the finished call are gone
Return(p) ==
  /\ At(p, "done")
  /\ stack' = [stack EXCEPT ![p] = << >>]
  /\ args' = [args EXCEPT ![p] = NoArgs]
  /\ downinfo' = [downinfo EXCEPT ![p] = NoInfo]
  /\ startTime' = [startTime EXCEPT ![p] = 0]
  /\ timeout' = [timeout EXCEPT ![p] = 0]
  /\ lastError' = [lastError EXCEPT ![p] = "undefined"]
  /\ ret' = [ret EXCEPT ![p] = NoRet]
  /\ steps' = [steps EXCEPT ![p] = << >>]
  /\ pre' = [pre EXCEPT ![p] = NoPre]
  /\ cur' = [cur EXCEPT ![p] = NoInfo]
  /\ fetched' = [fetched EXCEPT ![p] = NoInfo]
  /\ api_result' = [api_result EXCEPT ![p] = NoRelease]
  /\ eires' = [eires EXCEPT ![p] = NoEI]
  /\ outcome' = [outcome EXCEPT ![p] = NoEU]
  /\ client' = [client EXCEPT ![p] = "undefined"]
  /\ IF \A q \in Procs \ {p} : Idle(q)
     THEN now' = 0 /\ info' = Aged(info, now)
     ELSE UNCHANGED << now, info >>
  /\ UNCHANGED overlapped
  /\ UNCHANGED replVars
  /\ UNCHANGED << cfg, storageExists, dirExists, exeExists, arcExists,
                  lockLeft >>

\* the state file is damaged between calls
Garble ==
  /\ Quiescent
  /\ cfg.faults
  /\ info.present
  /\ info.parses
  /\ info' = Garbled
  /\ UNCHANGED overlapped
  /\ UNCHANGED replVars
  /\ UNCHANGED << cfg, storageExists, dirExists, exeExists, arcExists, now,
                  lockLeft, client, stack, args, downinfo, clVars, ret, steps,
                  pre, instVars >>

\* time passes between calls
Tick ==
  /\ Quiescent
  /\ \E d \in Waits : info' = Aged(info, d)
  /\ UNCHANGED overlapped
  /\ UNCHANGED replVars
  /\ UNCHANGED << cfg, storageExists, dirExists, exeExists, arcExists, now,
                  lockLeft, client, stack, args, downinfo, clVars, ret, steps,
                  pre, instVars >>

(* ----------------------------- REPLProcess ---------------------------- *)
\* start() up to its await: with a terminal it only shows it, without one it
\* asks the workspace for a terminal
ReplStart(p) ==
  /\ ~starting[p]
  /\ IF consoleTerminal # 0
     THEN /\ lastLog' = "already started"
          /\ UNCHANGED starting
     ELSE /\ created + Cardinality({q \in Procs : starting[q]}) < MaxTerminals
          /\ lastLog' = "starting"
          /\ starting' = [starting EXCEPT ![p] = TRUE]
  /\ UNCHANGED << consoleTerminal, consoleCloseSubscription, terminals,
                  subscriptions, created, fired >>
  /\ UNCHANGED installVars

\* start(): createTerminal resolved; the terminal is stored and a handler of
\* onDidCloseTerminal subscribed, whatever the fields held
ReplCreated(p) ==
  /\ starting[p]
  /\ created' = created + 1
  /\ terminals' = terminals \cup {created + 1}
  /\ consoleTerminal' = created + 1
  /\ subscriptions' = subscriptions \cup {created + 1}
  /\ consoleCloseSubscription' = created + 1
  /\ starting' = [starting EXCEPT ![p] = FALSE]
  /\ UNCHANGED << lastLog, fired >>
  /\ UNCHANGED installVars

\* dispose(): the subscription and the terminal the fields refer to
ReplDispose ==
  /\ subscriptions' = subscriptions \ {consoleCloseSubscription}
  /\ consoleCloseSubscription' = 0
  /\ terminals' = terminals \ {consoleTerminal}
  /\ consoleTerminal' = 0
  /\ lastLog' = IF consoleTerminal # 0 THEN "terminating" ELSE lastLog
  /\ UNCHANGED << created, starting, fired >>
  /\ UNCHANGED installVars

\* a terminal ends or its window is closed: every subscribed handler runs and
\* fires onExited when the terminal is the one stored
ReplClosed(t) ==
  /\ t \in terminals
  /\ terminals' = terminals \ {t}
  /\ IF t = consoleTerminal /\ subscriptions # {}
     THEN /\ lastLog' = "terminated"
          /\ fired' = Cardinality(subscriptions)
     ELSE /\ fired' = 0
          /\ UNCHANGED lastLog
  /\ UNCHANGED << consoleTerminal, consoleCloseSubscription, subscriptions,
                  created, starting >>
  /\ UNCHANGED installVars

(* ---------------------------- specification --------------------------- *)
\* the configurations explored: both repository kinds without a custom
\* path and the url-prefix repository with one, all with a string pattern and
\* the default archiver; the github repository with a custom path that
\* exists, a regular expression and the gzip archiver, and with a custom path
\* that is missing and the tar-gzip archiver.  The provider reads neither
\* customPath nor the installer's arguments.
Config(kind, custom) ==
  [repoKind |-> kind, customPath |-> custom,
   platformFilename |-> [kind |-> "string", text |-> ServerZip],
   archiver |-> "zip", faults |-> TRUE]

Configs ==
  {Config(k, "none") : k \in {"github", "url-prefix"}}
    \cup {Config("url-prefix", c) : c \in {"exists", "missing"}}
    \cup {[Config("github", "exists") EXCEPT
             !.platformFilename.kind = "regexp", !.archiver = "gzip"]}
    \cup {[Config("github", "missing") EXCEPT !.archiver = "tar-gzip"]}

Start ==
  /\ info = NoInfo
  /\ storageExists = FALSE
  /\ dirExists = FALSE
  /\ exeExists = FALSE
  /\ arcExists = FALSE
  /\ now = 0
  /\ lockLeft = 0
  /\ client = [p \in Procs |-> "undefined"]
  /\ stack = [p \in Procs |-> << >>]
  /\ args = [p \in Procs |-> NoArgs]
  /\ downinfo = [p \in Procs |-> NoInfo]
  /\ startTime = [p \in Procs |-> 0]
  /\ timeout = [p \in Procs |-> 0]
  /\ lastError = [p \in Procs |-> "undefined"]
  /\ ret = [p \in Procs |-> NoRet]
  /\ steps = [p \in Procs |-> << >>]
  /\ pre = [p \in Procs |-> NoPre]
  /\ cur = [p \in Procs |-> NoInfo]
  /\ fetched = [p \in Procs |-> NoInfo]
  /\ api_result = [p \in Procs |-> NoRelease]
  /\ eires = [p \in Procs |-> NoEI]
  /\ outcome = [p \in Procs |-> NoEU]
  /\ overlapped = FALSE
  /\ consoleTerminal = 0
  /\ consoleCloseSubscription = 0
  /\ terminals = {}
  /\ subscriptions = {}
  /\ created = 0
  /\ starting = [p \in Procs |-> FALSE]
  /\ lastLog = ""
  /\ fired = 0

Init == cfg \in Configs /\ Start

Step(p) ==
  \/ CallDownload(p)
  \/ CallCleanup(p)
  \/ CallGetLanguageServer(p)
  \/ GlDownloaded(p)
  \/ CallFetchDownloadInfo(p)
  \/ FdJson(p)
  \/ CallCheckVersion(p)
  \/ CallEnsureInstalled(p)
  \/ CallEnsureUpdated(p)
  \/ DlFetched(p)
  \/ ClLoop(p)
  \/ ClSleep(p)
  \/ DlCleaned(p)
  \/ DlDownloaded(p)
  \/ DlExtracting(p)
  \/ DlExtracted(p)
  \/ CvFetched(p)
  \/ EiPrompt(p)
  \/ EiInstalled(p)
  \/ EuChecked(p)
  \/ EuInstalled(p)
  \/ EuPrompt(p)
  \/ EuUpgraded(p)
  \/ Return(p)

\* calls are serialized: one caller, one call in flight
Next == Step(1) \/ Tick \/ Garble

Spec == Init /\ [][Next]_vars

\* Overlapping calls: the caller does not await one call before starting the
\* next, so the two calls interleave at their awaits.  No I/O failure is
\* injected: what goes wrong here goes wrong through the other call alone.
ConcConfigs ==
  {[c EXCEPT !.faults = FALSE] :
     c \in {d \in Configs : d.customPath = "none" /\ d.archiver = "zip"}}

ConcInit == cfg \in ConcConfigs /\ Start

ConcStep(p) ==
  \/ CallDownload(p)
  \/ CallCleanup(p)
  \/ DlFetched(p)
  \/ ClLoop(p)
  \/ DlCleaned(p)
  \/ DlDownloaded(p)
  \/ DlExtracting(p)
  \/ DlExtracted(p)
  \/ Return(p)

ConcNext == \E p \in Procs : ConcStep(p)

ConcSpec == ConcInit /\ [][ConcNext]_vars

\* install(force) of the older revision: process 1 is the call, process 2 the
\* cleanup it does not await.  A new call begins once both have ended.  The
\* timer of a cleanup that nothing awaits fires only after the caller went on.
ForceConfigs ==
  {c \in Configs : c.customPath = "none" /\ c.repoKind = "url-prefix"}

ForceInit == cfg \in ForceConfigs /\ Start

ForceNext ==
  \/ Quiescent /\ CallInstall(1)
  \/ InForced(1, 2)
  \/ DlFetched(1)
  \/ DlCleaned(1)
  \/ DlDownloaded(1)
  \/ DlExtracting(1)
  \/ DlExtracted(1)
  \/ \E p \in Procs : ClLoop(p)
  \/ \E p \in Procs : ~Detaching(p) /\ ClSleep(p)
  \/ \E p \in Procs : Return(p)

ForceSpec == ForceInit /\ [][ForceNext]_vars

\* one REPLProcess: start() and dispose() called by two callers that do not
\* wait for each other, and terminals closed from outside
ReplInit == cfg = Config("github", "none") /\ Start

ReplNext ==
  \/ \E p \in Procs : ReplStart(p)
  \/ \E p \in Procs : ReplCreated(p)
  \/ ReplDispose
  \/ \E t \in 1..MaxTerminals : ReplClosed(t)

ReplSpec == ReplInit /\ [][ReplNext]_vars

(* ------------------------------ properties ---------------------------- *)
Done(p, op) == stack[p] = << "done" >> /\ args[p].op = op

Removals == {"rimrafDir", "rimrafDirFail", "rimrafInfo", "rimrafInfoFail"}
InstallSteps ==
  Removals \cup {"mkdir", "download", "downloadFail", "downloadHang",
                 "extract", "extractFail", "extractHang", "unlink",
                 "unlinkFail"}

NoneOf(s, es) == \A i \in 1..Len(s) : s[i] \notin es

SameFiles(p) ==
  /\ dirExists = pre[p].dirExists
  /\ exeExists = pre[p].exeExists
  /\ arcExists = pre[p].arcExists

\* the stored record agreed with the resolved release in id and version
SawCurrent(p) ==
  /\ downinfo[p].present
  /\ pre[p].info.present
  /\ pre[p].info.parses
  /\ pre[p].info.id = downinfo[p].id
  /\ pre[p].info.version = downinfo[p].version

\* C1: a downloadLanguageServer call that finds the stored record's id and
\* version equal to the resolved release's downloads nothing, removes nothing
\* and extracts nothing; it only sets the record's downloadedTime to the
\* current time, leaving url, version and id as stored.
C1_RefreshOnly ==
  \A p \in Procs :
    (Done(p, "downloadLanguageServer") /\ SawCurrent(p)) =>
      /\ ret[p].ok
      /\ NoneOf(steps[p], InstallSteps)
      /\ SameFiles(p)
      /\ info = [pre[p].info EXCEPT !.downloadedTime = now]

C1_Witness ==
  \E p \in Procs :
    /\ Done(p, "downloadLanguageServer")
    /\ SawCurrent(p)
    /\ pre[p].info.url # downinfo[p].url
    /\ pre[p].info.downloadedTime # now
    /\ info.downloadedTime = now

ExtractionFailed(p) ==
  Done(p, "downloadLanguageServer") /\ Has(steps[p], "extractFail")

\* C2 as stated: after a downloadLanguageServer call whose extraction failed
\* the install record is identical to the record before the call.
C2_RecordUnchanged ==
  \A p \in Procs : ExtractionFailed(p) => info = pre[p].info

\* C2 amended: after a downloadLanguageServer call whose extraction failed
\* the record is never new or partly updated: it is absent when the cleanup
\* step removed the state file with the install directory, and identical to
\* the record before the call otherwise.
C2_RecordUnchangedOrRemoved ==
  \A p \in Procs :
    ExtractionFailed(p) =>
      IF Has(steps[p], "rimrafInfo") THEN info = NoInfo
      ELSE info = pre[p].info

C2_Witness ==
  \E p \in Procs :
    /\ ExtractionFailed(p)
    /\ pre[p].info.present
    /\ info = NoInfo

\* C3: checkVersion with no custom path and a stored record returns same
\* exactly when the record's id and version both equal the resolved
\* release's; agreement in only one of the two is classified different.
C3_SameIffBothEqual ==
  \A p \in Procs :
    (Done(p, "checkVersion") /\ ~isCustomPath /\ cur[p].present
       /\ ret[p].ok) =>
      (ret[p].val = "same" <=>
         (cur[p].id = fetched[p].id /\ cur[p].version = fetched[p].version))

LastIndex(s, e) ==
  IF Has(s, e) THEN CHOOSE i \in 1..Len(s) :
                      s[i] = e /\ \A j \in (i + 1)..Len(s) : s[j] # e
  ELSE 0

\* C4: on every exit path of ensureUpdated on which stop() was called on the
\* running client, start() is called on it before ensureUpdated returns.
C4_RestartedOnEveryExit ==
  \A p \in Procs :
    (Done(p, "ensureUpdated") /\ Has(steps[p], "stop")) =>
      /\ LastIndex(steps[p], "start") > LastIndex(steps[p], "stop")
      /\ client[p] = "running"

CancelledOutcome(p) ==
  IF args[p].op = "ensureInstalled"
  THEN eires[p] = EI(FALSE, FALSE, Cancelled, "")
  ELSE outcome[p] = EU("outdated", FALSE, Cancelled)

Declined(p) ==
  /\ (Done(p, "ensureInstalled") \/ Done(p, "ensureUpdated"))
  /\ Has(steps[p], "declined")

\* C5: when the user declines the confirmation prompt of ensureInstalled or
\* ensureUpdated the call returns the cancelled outcome, the state file and
\* the install directory are as before the call, and no download was started.
C5_DeclineChangesNothing ==
  \A p \in Procs :
    Declined(p) =>
      /\ args[p].ask /\ args[p].doInstall
      /\ CancelledOutcome(p)
      /\ info = pre[p].info
      /\ SameFiles(p)
      /\ NoneOf(steps[p], InstallSteps \cup {"save"})
      /\ ~downinfo[p].present

C5_Witness ==
  \E p \in Procs :
    /\ Done(p, "ensureUpdated")
    /\ Has(steps[p], "declined")
    /\ pre[p].info.present
    /\ pre[p].exeExists
    /\ outcome[p].error = Cancelled

\* C6: with a custom server path configured checkVersion returns customPath
\* whatever the local record and the remote release are, without resolving a
\* release and without reading the state file.
C6_CustomPathShortCircuit ==
  \A p \in Procs :
    (Done(p, "checkVersion") /\ cfg.customPath # "none") =>
      /\ ret[p] = Ok("customPath")
      /\ steps[p] = << >>
      /\ ~fetched[p].present

C6_Witness ==
  \E p \in Procs :
    /\ Done(p, "checkVersion")
    /\ cfg.customPath = "missing"
    /\ info.present
    /\ ret[p] = Ok("customPath")

\* C7: cleanupLanguageServer(timeout) on a directory whose removal fails on
\* the first N attempts: it returns true iff N * 100 < timeout, and otherwise
\* raises the error of its last failed attempt.
C7_RetryBound ==
  \A p \in Procs :
    (Done(p, "cleanupLanguageServer") /\ pre[p].dirExists
       /\ ~Has(steps[p], "rimrafInfoFail")) =>
      LET N == Count(steps[p], "rimrafDirFail")
      IN IF ret[p].ok
         THEN ret[p].val = "true" /\ N * RetryInterval < timeout[p]
         ELSE /\ N * RetryInterval >= timeout[p]
              /\ N >= 1
              /\ ret[p].err = "EPERM"

\* C8: whenever no operation is in flight and the state file exists, the
\* server executable exists in the install directory.
C8_RecordImpliesExecutable ==
  (Quiescent /\ info.present) => exeExists

Stage(e) ==
  CASE e \in {"fetch", "fetchFail"} -> 1
    [] e = "load" -> 2
    [] e \in Removals -> 3
    [] e = "mkdir" -> 4
    [] e \in {"download", "downloadFail", "downloadHang"} -> 5
    [] e \in {"extract", "extractFail", "extractHang"} -> 6
    [] e \in {"unlink", "unlinkFail"} -> 7
    [] e = "save" -> 8
    [] OTHER -> 0

OnReplacePath(p) ==
  /\ args[p].op = "downloadLanguageServer"
  /\ \E i \in 1..Len(steps[p]) : steps[p][i] \in InstallSteps

\* C9: on the replace path of one downloadLanguageServer call the steps
\* resolve, remove, mkdir, download, extract, unlink, save happen in that
\* order, each after the one before it succeeded, and the record is saved
\* only after a successful download and a successful extraction.
C9_StepsInOrder ==
  \A p \in Procs :
    OnReplacePath(p) =>
      LET s == steps[p]
      IN /\ \A i, j \in 1..Len(s) :
              i < j => /\ Stage(s[i]) <= Stage(s[j])
                       /\ Stage(s[i]) # 3 => Stage(s[i]) < Stage(s[j])
                       /\ s[i] \notin {"fetchFail", "downloadFail",
                                       "downloadHang", "extractFail",
                                       "extractHang", "unlinkFail"}
         /\ Has(s, "mkdir") =>
              /\ Has(s, "fetch")
              /\ pre[p].dirExists => Has(s, "rimrafDir")
         /\ Has(s, "download") \/ Has(s, "downloadFail") => Has(s, "mkdir")
         /\ Has(s, "extract") \/ Has(s, "extractFail")
              \/ Has(s, "extractHang") => Has(s, "download")
         /\ Has(s, "unlink") => Has(s, "extract")
         /\ Has(s, "save") => Has(s, "unlink")

C9_Witness ==
  \E p \in Procs :
    /\ Done(p, "downloadLanguageServer")
    /\ steps[p] = << "fetch", "load", "rimrafDir", "rimrafInfo", "mkdir",
                     "download", "extract", "unlink", "save" >>
    /\ info.present

\* C10: after downloadLanguageServer resolved a release and then failed
\* before writing the record, checkInstalled() returns false.
C10_FailedInstallNotInstalled ==
  \A p \in Procs :
    (Done(p, "downloadLanguageServer") /\ ~ret[p].ok /\ ~isCustomPath
       /\ Has(steps[p], "fetch")) =>
      ~checkInstalled

EiResult(p) == Done(p, "ensureInstalled")
EuResult(p) == Done(p, "ensureUpdated")

\* the error the finished call reports ("" when it reports none)
ErrorOf(p) ==
  IF args[p].op = "ensureInstalled" THEN eires[p].error ELSE outcome[p].error

\* install() was entered: its fetchDownloadInfo settled
InstallAttempted(p) == downinfo[p].present \/ Has(steps[p], "fetchFail")

Prompts == {"prompt", "confirmed", "declined"}

\* C11: with no custom path, no state file and no executable,
\* ensureInstalled(ask = false, doInstall = true) shows no prompt and runs
\* the install; when resolution, download and extraction succeed it returns
\* {available: true, installed: true}, the record is written with the
\* resolved version ("" for a url-prefix repository) and the executable
\* exists.
C11_UnattendedInstall ==
  \A p \in Procs :
    (EiResult(p) /\ ~args[p].ask /\ args[p].doInstall /\ ~isCustomPath
       /\ ~pre[p].info.present /\ ~pre[p].exeExists) =>
      /\ NoneOf(steps[p], Prompts)
      /\ InstallAttempted(p)
      /\ Has(steps[p], "extract") =>
           /\ eires[p] = EI(TRUE, TRUE, "", downinfo[p].version)
           /\ info.present
           /\ info.version = downinfo[p].version
           /\ cfg.repoKind = "url-prefix" => info.version = ""
           /\ exeExists

\* the call came to the confirmation step: doInstall is set and the server
\* is missing (ensureInstalled, notInstalled branch) or outdated
AtGate(p) ==
  /\ args[p].doInstall
  /\ ~isCustomPath
  /\ \/ EiResult(p) /\ ~pre[p].exeExists
     \/ EuResult(p) /\ ~pre[p].info.present /\ ~pre[p].exeExists
     \/ /\ EuResult(p)
        /\ cur[p].present
        /\ fetched[p].present
        /\ cur[p].version # fetched[p].version

\* C12: a call run with ask = false ends as the same call run with
\* ask = true and a prompt answered yes: past the confirmation step both run
\* the install and neither reports a cancellation.
C12_UnattendedAsConfirmed ==
  \A p \in Procs :
    (AtGate(p) /\ (~args[p].ask \/ Has(steps[p], "confirmed"))) =>
      /\ InstallAttempted(p)
      /\ ErrorOf(p) # Cancelled

FirstIndex(s, e) ==
  IF Has(s, e) THEN CHOOSE i \in 1..Len(s) :
                      s[i] = e /\ \A j \in 1..(i - 1) : s[j] # e
  ELSE 0

\* C13: ensureUpdated calls stop() on the running client only after the
\* doInstall / ask gate has passed (doInstall is true and, when ask is true,
\* the user confirmed); a call whose outcome is cancelled or disabled never
\* called stop().
C13_StopOnlyPastGate ==
  \A p \in Procs :
    EuResult(p) =>
      /\ outcome[p].error \in {Cancelled, NotSet} => ~Has(steps[p], "stop")
      /\ Has(steps[p], "stop") =>
           /\ args[p].doInstall
           /\ args[p].ask =>
                /\ Has(steps[p], "confirmed")
                /\ FirstIndex(steps[p], "confirmed")
                     < FirstIndex(steps[p], "stop")

\* the server is outdated: checkVersion classified the record as different
Outdated(p) ==
  /\ EuResult(p)
  /\ cur[p].present
  /\ fetched[p].present
  /\ cur[p].version # fetched[p].version

\* C14: with doInstall = false and the server missing or outdated,
\* ensureInstalled and ensureUpdated return an unavailable / not-updated
\* outcome, show no confirmation prompt, download nothing and leave the state
\* file and the install directory as they were.
C14_DisabledChangesNothing ==
  \A p \in Procs :
    ((EiResult(p) \/ EuResult(p)) /\ ~args[p].doInstall /\ ~isCustomPath) =>
      /\ NoneOf(steps[p], Prompts \cup InstallSteps \cup {"save"})
      /\ ~downinfo[p].present
      /\ info = pre[p].info
      /\ SameFiles(p)
      /\ (EiResult(p) /\ ~pre[p].exeExists) =>
           eires[p] = EI(FALSE, FALSE, NotSet, "")
      /\ EuResult(p) => ~outcome[p].updated
      /\ (Outdated(p) \/ (EuResult(p) /\ ~pre[p].info.present
                                      /\ ~pre[p].exeExists)) =>
           outcome[p] = EU("outdated", FALSE, NotSet)

C14_Witness ==
  \E p \in Procs :
    /\ Outdated(p)
    /\ ~args[p].doInstall
    /\ args[p].ask
    /\ pre[p].exeExists
    /\ outcome[p] = EU("outdated", FALSE, NotSet)
    /\ info = pre[p].info

\* the errors a failed step of the call raises
FailureErrors(s) ==
  (IF Has(s, "fetchFail") THEN {"TypeError", "ResolutionError"} ELSE {})
    \cup (IF Has(s, "downloadFail") THEN {"DownloadError"} ELSE {})
    \cup (IF Has(s, "extractFail") THEN {"ExtractionError"} ELSE {})

Failed(p) == FailureErrors(steps[p]) # {}

\* C15: the outcome of ensureInstalled / ensureUpdated names its cause: the
\* error is "Cancelled by user" exactly when a confirmation prompt was shown
\* and declined, "doInstall is not set" exactly when doInstall = false
\* blocked the call, and a resolution, download or extraction failure is
\* reported with its own error, never as one of the other two.
C15_ErrorNamesCause ==
  \A p \in Procs :
    (EiResult(p) \/ EuResult(p)) =>
      /\ ErrorOf(p) = Cancelled <=>
           (Has(steps[p], "prompt") /\ Has(steps[p], "declined"))
      /\ ErrorOf(p) = NotSet =>
           (~args[p].doInstall /\ NoneOf(steps[p], Prompts))
      /\ (~args[p].doInstall /\ (Outdated(p) \/
             (~isCustomPath /\ ~pre[p].info.present /\ ~pre[p].exeExists))) =>
           ErrorOf(p) = NotSet
      /\ Failed(p) => ErrorOf(p) \in FailureErrors(steps[p])

C17_CustomPathDoesNothing ==
  \A p \in Procs :
    ((EiResult(p) \/ EuResult(p)) /\ cfg.customPath # "none") =>
      /\ steps[p] = << >>
      /\ ~downinfo[p].present
      /\ ~fetched[p].present
      /\ info = pre[p].info
      /\ SameFiles(p)
      /\ EuResult(p) => outcome[p] = EU("customPath", FALSE, "")
      /\ EiResult(p) =>
           eires[p] = IF cfg.customPath = "exists"
                      THEN EI(TRUE, FALSE, "", "")
                      ELSE EI(FALSE, FALSE, NotFound, "")

C17_Witness ==
  \E p \in Procs :
    /\ EuResult(p)
    /\ cfg.customPath = "missing"
    /\ args[p].doInstall
    /\ ~args[p].ask
    /\ client[p] = "running"
    /\ pre[p].info.present
    /\ pre[p].exeExists
    /\ outcome[p].status = "customPath"

\* C18: checkInstalled() is true exactly when a custom path is configured
\* or an install record exists, and the corresponding executable file is
\* present; with no custom path and no record it is false even when the
\* executable exists in the install directory.
C18_InstalledNeedsRecord ==
  Quiescent =>
    (checkInstalled <=>
       /\ cfg.customPath # "none" \/ info.present
       /\ IF cfg.customPath # "none" THEN cfg.customPath = "exists"
          ELSE exeExists)

\* cleanupLanguageServer returned to its caller without raising
CleanupReturned(p) ==
  /\ Done(p, "cleanupLanguageServer") \/ At(p, "dl_cleaned")
  /\ ret[p].ok

\* C19: in every state in which cleanupLanguageServer has returned without
\* raising, neither the install directory nor the state file exists.
C19_RemovedTogether ==
  \A p \in Procs : CleanupReturned(p) => (~dirExists /\ ~info.present)

\* C20: cleanupLanguageServer(timeout), for every timeout >= 0, returns
\* false at once when the install directory does not exist: without waiting,
\* without deleting anything and without raising.
C20_NothingToRemove ==
  \A p \in Procs :
    (Done(p, "cleanupLanguageServer") /\ ~pre[p].dirExists) =>
      /\ ret[p] = Ok("false")
      /\ steps[p] = << >>
      /\ now = pre[p].now
      /\ info = pre[p].info
      /\ SameFiles(p)

\* C21: for a url-prefix repository fetchDownloadInfo yields the empty
\* version, and the is-current test never suppresses a refresh:
\* downloadLanguageServer called with a record of an earlier install of the
\* same repository downloads and extracts again instead of only refreshing
\* the timestamp.
C21_UrlPrefixAlwaysRefreshes ==
  \A p \in Procs :
    (Done(p, "downloadLanguageServer") /\ cfg.repoKind = "url-prefix"
       /\ downinfo[p].present) =>
      /\ downinfo[p].version = ""
      /\ (pre[p].info.present /\ pre[p].info.parses) =>
           \E i \in 1..Len(steps[p]) : steps[p][i] \in InstallSteps

\* the asset names the configured pattern selects
NamesSelected ==
  IF cfg.platformFilename.kind = "string" THEN {ServerZip}
  ELSE {ServerZip, OldServerZip}

\* index of the first asset, in release order, with a selected name (0: none)
FirstSelected(rel) ==
  IF \E i \in 1..Len(rel.assets) : rel.assets[i].name \in NamesSelected
  THEN CHOOSE i \in 1..Len(rel.assets) :
         /\ rel.assets[i].name \in NamesSelected
         /\ \A j \in 1..(i - 1) : rel.assets[j].name \notin NamesSelected
  ELSE 0

Resolved(p) ==
  /\ Done(p, "fetchDownloadInfo")
  /\ cfg.repoKind = "github"
  /\ api_result[p] # NoRelease

\* C22: for a github repository fetchDownloadInfo returns the download URL
\* of the first asset, in release order, whose name equals the string
\* pattern or matches the regular expression, with version the release name
\* and id the release id; when no asset matches it fails with an error and
\* creates or changes no record and no file.
C22_FirstMatchingAsset ==
  \A p \in Procs :
    Resolved(p) =>
      LET rel == api_result[p]
          i == FirstSelected(rel)
      IN /\ info = pre[p].info
         /\ SameFiles(p)
         /\ IF i = 0
            THEN ~ret[p].ok /\ ~fetched[p].present
            ELSE /\ ret[p].ok
                 /\ fetched[p] = IDownloadInfo(
                      rel.assets[i].browser_download_url, rel.name, rel.id, now)

C22_Witness ==
  \E p \in Procs :
    /\ Resolved(p)
    /\ cfg.platformFilename.kind = "regexp"
    /\ FirstSelected(api_result[p]) = 2
    /\ fetched[p].url = "u2"
    /\ info.present

\* the state file existed and did not parse when the call began
CorruptBefore(p) == pre[p].info.present /\ ~pre[p].info.parses

\* C23: a state file that exists but does not parse is never treated as
\* not installed: loading it raises, checkVersion does not return
\* notInstalled, and ensureUpdated installs nothing, removes no directory
\* and writes no state file.
C23_CorruptIsNotAbsent ==
  \A p \in Procs :
    (CorruptBefore(p) /\ ~isCustomPath) =>
      /\ Done(p, "checkVersion") =>
           /\ ret[p] = Throw("SyntaxError")
           /\ steps[p] = << "loadFail" >>
      /\ EuResult(p) =>
           /\ outcome[p] = EU("outdated", FALSE, "SyntaxError")
           /\ NoneOf(steps[p], InstallSteps \cup {"save", "load"} \cup Prompts)
           /\ info = pre[p].info
           /\ SameFiles(p)

C23_Witness ==
  \E p \in Procs :
    /\ EuResult(p)
    /\ CorruptBefore(p)
    /\ ~isCustomPath
    /\ pre[p].exeExists
    /\ args[p].doInstall
    /\ ~args[p].ask
    /\ outcome[p].error = "SyntaxError"

\* C24: after a successful downloadLanguageServer on the replace path the
\* downloaded archive file no longer exists; after a downloadLanguageServer
\* whose extraction failed the archive file still exists.
C24_ArchiveRemovedOnSuccess ==
  \A p \in Procs :
    /\ (Done(p, "downloadLanguageServer") /\ ret[p].ok
          /\ Has(steps[p], "extract")) => ~arcExists
    /\ ExtractionFailed(p) => arcExists

\* a failed extraction left its archive, and the next, successful call
\* removed it
C24_Witness ==
  \E p \in Procs :
    /\ Done(p, "downloadLanguageServer")
    /\ ret[p].ok
    /\ Has(steps[p], "extract")
    /\ pre[p].arcExists
    /\ ~arcExists

\* checkVersion classified the installation as same
SameVersion(p) ==
  /\ EuResult(p)
  /\ cur[p].present
  /\ fetched[p].present
  /\ cur[p].version = fetched[p].version

\* C25: when checkVersion classifies the installation as same, ensureUpdated
\* returns upToDate, shows the informational notice exactly when showMessage
\* is true, and does nothing else: no prompt, no stop or start of the
\* client, no download, no change to the state file or install directory.
C25_UpToDateOnlyNotifies ==
  \A p \in Procs :
    SameVersion(p) =>
      /\ outcome[p] = EU("upToDate", FALSE, "")
      /\ steps[p] = << "load", "fetch" >>
                      \o (IF args[p].showMessage THEN << "notifyInfo" >>
                          ELSE << >>)
      /\ ~downinfo[p].present
      /\ info = pre[p].info
      /\ SameFiles(p)

C25_Witness ==
  \E p \in Procs :
    /\ SameVersion(p)
    /\ ~args[p].showMessage
    /\ args[p].doInstall
    /\ client[p] = "running"
    /\ outcome[p].status = "upToDate"

\* C26: a failure of ensureInstalled or ensureUpdated on a path where no
\* confirmation prompt was shown displays no error notice and is reported
\* only through the outcome; every failure after a prompt was shown
\* displays a notice.
C26_NoticeOnlyAfterPrompt ==
  \A p \in Procs :
    ((EiResult(p) \/ EuResult(p)) /\ Failed(p)) =>
      (Has(steps[p], "notifyError") <=> Has(steps[p], "prompt"))

\* C30: in the notInstalled branch of ensureUpdated the assertion on
\* installed never fails: when checkVersion found no record and
\* ensureInstalled reports available: true, it reports installed: true,
\* also when the executable is present without a record.
C30_AssertionHolds ==
  \A p \in Procs :
    (EuResult(p) /\ ~isCustomPath /\ ~pre[p].info.present
       /\ eires[p].set /\ eires[p].available) =>
      /\ eires[p].installed
      /\ outcome[p].error # "AssertionError"

\* getLanguageServer went into downloadLanguageServer
DownloadInvoked(p) ==
  Has(steps[p], "fetch") \/ Has(steps[p], "fetchFail")

\* the age of the record when the call began
AgeBefore(p) == pre[p].now - pre[p].info.downloadedTime

\* C27: shouldRegularUpdate is true exactly when no record exists or the
\* current time minus the record's downloadedTime is at least 7 * 86400000
\* ms, and getLanguageServer invokes downloadLanguageServer exactly when the
\* executable is missing or shouldRegularUpdate is true.
C27_StaleAtThreshold ==
  /\ ~LoadThrows =>
       (shouldRegularUpdate <=>
          (~info.present \/ now - info.downloadedTime >= 7 * 86400000))
  /\ \A p \in Procs :
       (Done(p, "getLanguageServer")
          /\ ~(pre[p].exeExists /\ CorruptBefore(p))) =>
         (DownloadInvoked(p) <=>
            \/ ~pre[p].exeExists
            \/ ~pre[p].info.present
            \/ AgeBefore(p) >= 7 * 86400000)

C27_Witness ==
  \E p \in Procs :
    /\ Done(p, "getLanguageServer")
    /\ pre[p].exeExists
    /\ pre[p].info.present
    /\ pre[p].info.parses
    /\ AgeBefore(p) = 7 * 86400000
    /\ DownloadInvoked(p)

\* C28: downloadLanguageServer always terminates: whatever the archive
\* format and whichever step fails (download stream, archive read, gzip
\* decode, output write or untar), the pending step rejects, so a call in
\* flight has either completed or has a next step to take.
C28_DownloadTerminates ==
  \A p \in Procs :
    (args[p].op = "downloadLanguageServer" /\ ~Idle(p)) =>
      (Done(p, "downloadLanguageServer") \/ ENABLED Step(p))

Finished == \A p \in Procs : Idle(p) \/ At(p, "done")

RecordWithoutExecutable == info.present /\ ~exeExists

\* C29: two overlapping downloadLanguageServer calls can destroy each
\* other's files and finish with a record present and the executable absent;
\* when the calls are serialized, and no I/O fails, no call finishes in that
\* state.
C29_OnlyOverlapLosesExecutable ==
  (Finished /\ RecordWithoutExecutable) => overlapped

C29_Witness ==
  /\ \A p \in Procs : Done(p, "downloadLanguageServer")
  /\ overlapped
  /\ RecordWithoutExecutable

\* the cleanup that install(true) did not await removes the directory
RemovesNotAwaited ==
  /\ args[2].op = NotAwaited
  /\ ~Has(steps[2], "rimrafDir")
  /\ Has(steps'[2], "rimrafDir")

\* C31: in install(true) the forced cleanup has finished before
\* downloadLanguageServer begins: none of its removals happens after the
\* download has made the install directory again.
C31_ForcedCleanupFinishedFirst ==
  [][RemovesNotAwaited => ~(args[1].op = "install" /\ Has(steps[1], "mkdir"))]_vars

\* C32: whenever ensureInstalled returns available: true, its path is a
\* defined path at which the executable exists, and when it also reports
\* installed: true its version is the version of the stored record; also
\* when the record matched the remote release and the executable was missing.
C32_AvailableHasExecutable ==
  \A p \in Procs :
    (EiResult(p) /\ eires[p].available) =>
      /\ path
      /\ eires[p].installed => eires[p].version = info.version

\* versions.newVersion of the result: installResult.version in the
\* notInstalled branch, otherwise the latestVersion of checkVersion
NewVersion(p) ==
  IF eires[p].set THEN eires[p].version ELSE fetched[p].version

\* C33: whenever ensureUpdated returns updated: true with versions
\* {oldVersion, newVersion}, the version in the stored record after the call
\* is newVersion, the version checkVersion resolved, although
\* downloadLanguageServer resolves the release again.
C33_RecordHasNewVersion ==
  \A p \in Procs :
    (EuResult(p) /\ outcome[p].updated) =>
      /\ info.present
      /\ info.version = NewVersion(p)

\* C34: ensureUpdated calls start() on the running client only in calls in
\* which it called stop() on it before: a client whose needsStop() is false
\* is never started.
C34_StartOnlyAfterStop ==
  \A p \in Procs :
    (args[p].op = "ensureUpdated" /\ Has(steps[p], "start")) =>
      /\ Has(steps[p], "stop")
      /\ FirstIndex(steps[p], "stop") < FirstIndex(steps[p], "start")

\* C35: right after a downloadLanguageServer call that completed without
\* error, on the timestamp-only path or the full replace path,
\* shouldRegularUpdate() is false: the record carries the time of the call;
\* and it is false as long as less than the threshold has passed since then.
C35_FreshAfterDownload ==
  /\ \A p \in Procs :
       (Done(p, "downloadLanguageServer") /\ ret[p].ok) =>
         /\ info.present
         /\ info.parses
         /\ info.downloadedTime = now
         /\ ~shouldRegularUpdate
  /\ (info.present /\ info.parses
        /\ now - info.downloadedTime < 7 * 86400000) =>
       ~shouldRegularUpdate

C35_Witness ==
  \E p \in Procs :
    /\ Done(p, "downloadLanguageServer")
    /\ ret[p].ok
    /\ pre[p].info.present
    /\ AgeBefore(p) >= 7 * 86400000
    /\ steps[p] = << "fetch", "load", "save" >>
    /\ ~shouldRegularUpdate

\* C36: a REPLProcess owns at most one terminal between disposals: a start()
\* made while a terminal exists, or while an earlier start() still awaits
\* the creation of the terminal, creates no second terminal and registers no
\* second close subscription.
C36_OneTerminal ==
  /\ Cardinality(terminals) <= 1
  /\ Cardinality(subscriptions) <= 1

====
